---- MODULE Spec2Model ----
(***************************************************************************)
(* The flow-equation integrator of tutorial/build_unitary.ipynb:           *)
(*                                                                         *)
(*     def flow(H, dl=10**(-3), steps=100000)                              *)
(*                                                                         *)
(* modelled statement by statement.  Arrays are sequences of rows; the     *)
(* entries are integers and dl is an integer, so every run of the model is *)
(* an exact run of the code (numpy's float64 represents these values       *)
(* without rounding).  Python arrays are objects: the heap maps an object  *)
(* to its contents, and the names H and H2 hold objects, so that the       *)
(* in-place update  H2 += dl*dH  changes whatever object H2 names.         *)
(***************************************************************************)
EXTENDS Integers, Sequences, FiniteSets, TLC

\* ------------------------------------------------------------------ bounds
MaxVal   == 1      \* diagonal entries of the input Hamiltonian are in 0..MaxVal
MaxDl    == 2      \* dl is in 1..MaxDl
MaxSteps == 3      \* steps is in 0..MaxSteps
MaxEntry == 10     \* an iteration is only modelled while |entries| <= MaxEntry

Dims == {2, 3}     \* shapes of the input Hamiltonian (n x n)

J == 1             \* the coupling of the notebook's Hamiltonian (J = 1.)

\* ------------------------------------------------------- array primitives
RECURSIVE SumTo(_, _)
SumTo(f, k) == IF k = 0 THEN 0 ELSE f[k] + SumTo(f, k - 1)

Abs(x) == IF x < 0 THEN -x ELSE x

shape(A) == Len(A)

identity(m) == [i \in 1..m |-> [j \in 1..m |-> IF i = j THEN 1 ELSE 0]]

\* np.diag(np.diag(A)): the diagonal part of A as a matrix
diagdiag(A) == [i \in 1..Len(A) |-> [j \in 1..Len(A) |-> IF i = j THEN A[i][j] ELSE 0]]

MatMul(A, B) ==
    [i \in 1..Len(A) |-> [j \in 1..Len(A) |->
        SumTo([k \in 1..Len(A) |-> A[i][k] * B[k][j]], Len(A))]]

MatAdd(A, B) == [i \in 1..Len(A) |-> [j \in 1..Len(A) |-> A[i][j] + B[i][j]]]

MatSub(A, B) == [i \in 1..Len(A) |-> [j \in 1..Len(A) |-> A[i][j] - B[i][j]]]

Scale(c, A) == [i \in 1..Len(A) |-> [j \in 1..Len(A) |-> c * A[i][j]]]

Transpose(A) == [i \in 1..Len(A) |-> [j \in 1..Len(A) |-> A[j][i]]]

RECURSIVE MaxTo(_, _)
MaxTo(f, k) == IF k = 0 THEN 0
               ELSE LET r == MaxTo(f, k - 1) IN IF f[k] > r THEN f[k] ELSE r

\* np.max(np.abs(A.reshape(n**2)))
MaxAbs(A) ==
    MaxTo([i \in 1..Len(A) |->
              MaxTo([j \in 1..Len(A) |-> Abs(A[i][j])], Len(A))], Len(A))

\* ------------------------------------------------- the statements of flow
\* H2 = H: the same object under a second name
noCopy(obj) == obj

\* copy.deepcopy(H): a new object
deepcopy(obj) == "copy"

\* H0 = np.diag(np.diag(H2))
H0Of(A) == diagdiag(A)

\* V = H2 - H0
VOf(A, h0) == MatSub(A, h0)

\* Vmax = np.max(np.abs(V.reshape(n**2)))
VmaxOf(v) == MaxAbs(v)

\* eta = H0@V + V@H0
etaPlus(h0, v) == MatAdd(MatMul(h0, v), MatMul(v, h0))

\* eta = H0@V - V@H0
etaOf(h0, v) == MatSub(MatMul(h0, v), MatMul(v, h0))

\* U = U@(np.identity(n) + dl*eta)
UOfRight(m, d, e, u) == MatMul(u, MatAdd(identity(m), Scale(d, e)))

\* U = (np.identity(n) + dl*eta)@U
UOf(m, d, e, u) == MatMul(MatAdd(identity(m), Scale(d, e)), u)

\* dH = eta@H2 + H2@eta
dHPlus(e, A) == MatAdd(MatMul(e, A), MatMul(A, e))

\* dH = eta@H2 - H2@H0
dHDiag(e, A) == MatSub(MatMul(e, A), MatMul(A, diagdiag(A)))

\* dH = eta@H2 - H2@eta
dHOf(e, A) == MatSub(MatMul(e, A), MatMul(A, e))

\* H2 = dl*dH
H2Assign(A, d, dh) == Scale(d, dh)

\* H2 += dl*dH
H2Of(A, d, dh) == MatAdd(A, Scale(d, dh))

\* ------------------------------------------------------------------ state
VARIABLES
    heap,     \* object -> contents ("arg": the caller's array, "copy": deepcopy's)
    H,        \* the object the parameter H names
    dl,       \* parameter dl
    steps,    \* parameter steps
    H2, n, U, q, H0, V, Vmax, eta, dH,   \* the locals of flow
    bound,    \* the local names that have been assigned
    pc,       \* position in flow
    result    \* the returned tuple (H2, Vmax, U)

vars == <<heap, H, dl, steps, H2, n, U, q, H0, V, Vmax, eta, dH, bound, pc, result>>

\* the input Hamiltonians: any on-site energies on the diagonal, and a coupling
\* of 0 or J at every off-diagonal place, symmetric or not
Matrices(m) ==
    {A \in [1..m -> [1..m -> 0..(IF MaxVal > J THEN MaxVal ELSE J)]] :
        \A i, j \in 1..m : IF i = j THEN A[i][j] <= MaxVal ELSE A[i][j] \in {0, J}}

Init ==
    /\ \E m \in Dims : \E A \in Matrices(m) : heap = [arg |-> A, copy |-> <<>>]
    /\ H = "arg"
    /\ dl \in 1..MaxDl
    /\ steps \in 0..MaxSteps
    /\ H2 = "unbound"
    /\ n = 0
    /\ U = <<>>
    /\ q = 0
    /\ H0 = <<>>
    /\ V = <<>>
    /\ Vmax = 0
    /\ eta = <<>>
    /\ dH = <<>>
    /\ bound = {"H", "dl", "steps"}
    /\ pc = "call"
    /\ result = <<>>

\* the contents of the array H2 names
H2arr == heap[H2]

\* lines 55-57: H2 = copy.deepcopy(H); n,_ = H2.shape; U = np.identity(n)
Enter ==
    /\ pc = "call"
    /\ H2' = deepcopy(H)
    /\ heap' = [heap EXCEPT ![deepcopy(H)] = heap[H]]
    /\ n' = shape(heap[H])
    /\ U' = identity(shape(heap[H]))
    /\ bound' = bound \cup {"H2", "n", "U"}
    /\ pc' = "for"
    /\ UNCHANGED <<H, dl, steps, q, H0, V, Vmax, eta, dH, result>>

\* the model follows an iteration only while the entries are small
Small == MaxAbs(H2arr) <= MaxEntry /\ MaxAbs(U) <= MaxEntry

\* line 58: for q in range(steps); q counts the iterations started
ForNext ==
    /\ pc = "for"
    /\ q < steps
    /\ Small
    /\ q' = q + 1
    /\ bound' = bound \cup {"q"}
    /\ pc' = "diag"
    /\ UNCHANGED <<heap, H, dl, steps, H2, n, U, H0, V, Vmax, eta, dH, result>>

\* line 58: range(steps) is exhausted
ForExit ==
    /\ pc = "for"
    /\ q >= steps
    /\ pc' = "return"
    /\ UNCHANGED <<heap, H, dl, steps, H2, n, U, q, H0, V, Vmax, eta, dH, bound, result>>

\* lines 60-62: H0, V, Vmax
Diag ==
    /\ pc = "diag"
    /\ H0' = H0Of(H2arr)
    /\ V' = VOf(H2arr, H0Of(H2arr))
    /\ Vmax' = VmaxOf(VOf(H2arr, H0Of(H2arr)))
    /\ bound' = bound \cup {"H0", "V", "Vmax"}
    /\ pc' = "eta"
    /\ UNCHANGED <<heap, H, dl, steps, H2, n, U, q, eta, dH, result>>

\* line 64: eta = H0@V - V@H0
Eta ==
    /\ pc = "eta"
    /\ eta' = etaOf(H0, V)
    /\ bound' = bound \cup {"eta"}
    /\ pc' = "U"
    /\ UNCHANGED <<heap, H, dl, steps, H2, n, U, q, H0, V, Vmax, dH, result>>

\* line 66: U = (np.identity(n) + dl*eta)@U
UpdateU ==
    /\ pc = "U"
    /\ U' = UOf(n, dl, eta, U)
    /\ pc' = "dH"
    /\ UNCHANGED <<heap, H, dl, steps, H2, n, q, H0, V, Vmax, eta, dH, bound, result>>

\* line 68: dH = eta@H2 - H2@eta
DH ==
    /\ pc = "dH"
    /\ dH' = dHOf(eta, H2arr)
    /\ bound' = bound \cup {"dH"}
    /\ pc' = "H2"
    /\ UNCHANGED <<heap, H, dl, steps, H2, n, U, q, H0, V, Vmax, eta, result>>

\* line 70: H2 += dl*dH, in place in the object H2 names
UpdateH2 ==
    /\ pc = "H2"
    /\ heap' = [heap EXCEPT ![H2] = H2Of(H2arr, dl, dH)]
    /\ pc' = "for"
    /\ UNCHANGED <<H, dl, steps, H2, n, U, q, H0, V, Vmax, eta, dH, bound, result>>

\* line 72: return H2,Vmax,U
Return ==
    /\ pc = "return"
    /\ "Vmax" \in bound
    /\ result' = <<H2arr, Vmax, U>>
    /\ pc' = "done"
    /\ UNCHANGED <<heap, H, dl, steps, H2, n, U, q, H0, V, Vmax, eta, dH, bound>>

\* line 72 when no iteration ran: Vmax is read before any assignment
ReturnUnbound ==
    /\ pc = "return"
    /\ "Vmax" \notin bound
    /\ pc' = "UnboundLocalError"
    /\ UNCHANGED <<heap, H, dl, steps, H2, n, U, q, H0, V, Vmax, eta, dH, bound, result>>

Next ==
    \/ Enter
    \/ ForNext
    \/ ForExit
    \/ Diag
    \/ Eta
    \/ UpdateU
    \/ DH
    \/ UpdateH2
    \/ Return
    \/ ReturnUnbound

Spec == Init /\ [][Next]_vars

\* ------------------------------------------------------ derived quantities
\* the contents of the caller's array
Harg == heap[H]

Zero(m) == [i \in 1..m |-> [j \in 1..m |-> 0]]

IsSymmetric(A) == \A i, j \in 1..Len(A) : A[i][j] = A[j][i]

IsAntisymmetric(A) == \A i, j \in 1..Len(A) : A[i][j] = -A[j][i]

IsDiagonal(A) == \A i, j \in 1..Len(A) : i # j => A[i][j] = 0

IsSquare(A, m) == Len(A) = m /\ \A i \in 1..m : Len(A[i]) = m

Trace(A) == SumTo([i \in 1..Len(A) |-> A[i][i]], Len(A))

\* maximum absolute off-diagonal entry
OffDiagMax(A) ==
    MaxTo([i \in 1..Len(A) |->
              MaxTo([j \in 1..Len(A) |-> IF i = j THEN 0 ELSE Abs(A[i][j])], Len(A))],
          Len(A))

\* the generator of the text: H0.V - V.H0 with H0 the diagonal part, V = A - H0
Generator(A) ==
    LET h0 == diagdiag(A)
        v  == MatSub(A, h0)
    IN  MatSub(MatMul(h0, v), MatMul(v, h0))

\* the Hamiltonian after k iterations of the loop body of flow on A
RECURSIVE flowH(_, _, _)
flowH(A, d, k) ==
    IF k = 0 THEN A
    ELSE LET B  == flowH(A, d, k - 1)
             h0 == H0Of(B)
             e  == etaOf(h0, VOf(B, h0))
         IN  H2Of(B, d, dHOf(e, B))

\* how flow ended: the loop has one exit, the exhaustion of range(steps)
TerminalState ==
    CASE pc = "call" -> "Initialized"
      [] pc = "done" -> "BudgetExhausted"
      [] pc = "UnboundLocalError" -> "Raised"
      [] OTHER -> "Flowing"

\* ------------------------------------------------------------------ claims

\* C1: a call with steps = 0 returns normally, and the returned Hamiltonian is
\* the original H entry for entry and the returned U is the identity.
C1_StepsZeroReturns ==
    (steps = 0 /\ pc \in {"done", "UnboundLocalError"}) =>
        /\ pc = "done"
        /\ result[1] = Harg
        /\ result[3] = identity(Len(Harg))

\* C2: for a diagonal H and steps >= 1 every eta computed is the zero matrix and
\* flow is a no-op: it returns (H, 0, identity), and flow applied to the
\* returned Hamiltonian gives the same Hamiltonian again.
C2_DiagonalNoOp ==
    IsDiagonal(Harg) =>
        /\ "eta" \in bound => eta = Zero(Len(Harg))
        /\ pc = "done" =>
              /\ result = <<Harg, 0, identity(Len(Harg))>>
              /\ flowH(result[1], dl, steps) = result[1]

C2_Witness ==
    /\ pc = "done"
    /\ steps >= 2
    /\ IsDiagonal(Harg)
    /\ Harg[1][1] # Harg[2][2]

\* C3: in every iteration one generator eta = H0.V - V.H0 is computed from the
\* pre-step Hamiltonian, and that eta makes both updates of the step:
\* U_new = (I + dl.eta).U_old and H_new = H_old + dl.(eta.H_old - H_old.eta).
\* The Hamiltonian is still the pre-step one when U is updated and when the
\* Hamiltonian is updated, so both are stated on it.
C3_SameEta ==
    [][ /\ pc = "U" =>
            LET g == Generator(heap[H2])
            IN  /\ eta = g
                /\ U' = MatMul(MatAdd(identity(Len(U)), Scale(dl, g)), U)
                /\ heap'[H2'] = heap[H2]
        /\ pc = "H2" =>
            LET g == Generator(heap[H2])
            IN  /\ eta = g
                /\ heap'[H2'] =
                      MatAdd(heap[H2],
                             Scale(dl, MatSub(MatMul(g, heap[H2]), MatMul(heap[H2], g))))
                /\ U' = U
      ]_vars

C3_Witness ==
    /\ pc = "for"
    /\ q >= 2
    /\ MaxAbs(eta) > 0
    /\ U # identity(n)
    /\ heap[H2] # Harg

\* C4: flow ends in exactly one of Converged, Diverged, BudgetExhausted and the
\* returned result tells which: no iteration is started once the measured
\* off-diagonal magnitude is zero (below every tolerance), and a run that
\* returns a Hamiltonian without off-diagonal part ended as Converged, so
\* that it differs from a run that only used up its steps.
C4_TerminalStateSurfaced ==
    /\ (pc = "diag" /\ q >= 2) => Vmax > 0
    /\ (pc = "done" /\ OffDiagMax(result[1]) = 0) => TerminalState = "Converged"

\* the off-diagonal measure rose in every one of the steps of this call
Diverging ==
    /\ steps >= 2
    /\ \A k \in 1..steps :
          OffDiagMax(flowH(Harg, dl, k)) > OffDiagMax(flowH(Harg, dl, k - 1))

\* C5: a run whose off-diagonal measure increases over consecutive steps is
\* reported as a convergence failure, never returned as an ordinary result.
C5_DivergenceReported ==
    (pc = "done" /\ Diverging) => TerminalState = "Diverged"

\* C6: for steps >= 1 the returned off-diagonal magnitude is the maximum
\* absolute off-diagonal entry of the returned Hamiltonian.
C6_VmaxOfReturned ==
    pc = "done" => result[2] = OffDiagMax(result[1])

\* C7: for a symmetric input the flowing Hamiltonian stays symmetric and keeps
\* its shape, and every eta computed is antisymmetric with zero diagonal.
C7_SymmetryKept ==
    (pc # "call" /\ IsSymmetric(Harg)) =>
        /\ IsSquare(heap[H2], Len(Harg))
        /\ IsSymmetric(heap[H2])
        /\ "eta" \in bound =>
              /\ IsSquare(eta, Len(Harg))
              /\ IsAntisymmetric(eta)
              /\ \A i \in 1..Len(eta) : eta[i][i] = 0

C7_Witness ==
    /\ pc = "for"
    /\ q >= 2
    /\ IsSymmetric(Harg)
    /\ heap[H2] # Harg
    /\ MaxAbs(eta) > 0

\* U.U^t - I
Defect(u) == MatSub(MatMul(u, Transpose(u)), identity(Len(u)))

C9_CallerArrayUnchanged ==
    [][heap'[H'] = heap[H]]_vars

C9_Witness ==
    /\ pc = "done"
    /\ steps >= 2
    /\ result[1] # Harg

\* C10: the trace of the flowing Hamiltonian is the trace of the original H
\* after every step, for every square H.
C10_TraceConserved ==
    pc # "call" => Trace(heap[H2]) = Trace(Harg)

C10_Witness ==
    /\ pc = "done"
    /\ steps >= 2
    /\ ~IsSymmetric(Harg)
    /\ result[1] # Harg
    /\ Trace(Harg) # 0

====
